---- MODULE Spec2Model ----
(***************************************************************************)
(* The todo-list component of src/app/components/TodoList.tsx (the         *)
(* persisting variant with an edit session) and of src/unnamed/part_000    *)
(* (the basic variant: no store, no edit session).                         *)
(*                                                                         *)
(* A JavaScript string is a sequence of one-character strings, so that     *)
(* trim() is computed.  The value of localStorage["todos"] is a sequence   *)
(* of JSON tokens, so that JSON.stringify and JSON.parse are computed.     *)
(* One action is one React event: the handler, the re-render it causes     *)
(* and the passive effects that the re-render schedules.                   *)
(***************************************************************************)
EXTENDS Naturals, Sequences, FiniteSets, TLC

VARIABLES
    variant,     \* "persist" (TodoList.tsx) or "basic" (part_000)
    env,         \* the execution environment of the storage calls
    store,       \* localStorage["todos"]: [present, toks]
    nextId,      \* number of ids generateId has handed out, plus one
    todos,       \* useState<Todo[]>
    inputValue,  \* useState("")
    filter,      \* useState<Filter>("all")
    editingId,   \* useState<string | null>(null); null is <<>>
    editValue,   \* useState("")
    hasLoaded,   \* useState(false)
    fault,       \* "none", or the uncaught error that took the component down
    earlySave    \* a save effect wrote to the store from the pre-load render

vars == <<variant, env, store, nextId, todos, inputValue, filter,
          editingId, editValue, hasLoaded, fault, earlySave>>

(***************************************************************************)
(* Bounds.                                                                 *)
(***************************************************************************)
MaxTodos == 2     \* longest collection the model builds
MaxIds == 2       \* ids generateId hands out in one behaviour

(***************************************************************************)
(* Strings.                                                                *)
(***************************************************************************)
Null == <<>>

IsSpace(c) == c = " "

RECURSIVE TrimStart(_)
TrimStart(s) ==
    IF s = <<>> THEN <<>>
    ELSE IF IsSpace(Head(s)) THEN TrimStart(Tail(s)) ELSE s

RECURSIVE TrimEnd(_)
TrimEnd(s) ==
    IF s = <<>> THEN <<>>
    ELSE IF IsSpace(s[Len(s)]) THEN TrimEnd(SubSeq(s, 1, Len(s) - 1)) ELSE s

\* String.prototype.trim
Trim(s) == TrimEnd(TrimStart(s))

\* a string in a boolean position: "" is falsy
Truthy(s) == s /= <<>>

\* what the user can type into the add input or the edit input
RawTexts == { <<>>, <<" ">>, <<" ", "a">>, <<"b", " ">> }

(***************************************************************************)
(* The Todo type and the id generator.                                     *)
(***************************************************************************)
Todo(id, text, completed) == [id |-> id, text |-> text, completed |-> completed]

\* mutant: every call returns the same string
generateIdRepeating(n) == <<"u", "1">>

\* mutant: an id that an item of an earlier session already has
generateIdStale(n) == <<"s", "1">>

\* crypto.randomUUID(), or the Date.now()/Math.random() fallback: an opaque
\* string that was never handed out before; the n-th one is "u" followed by
\* the digits of n.
generateId(n) == <<"u", ToString(n)>>

(***************************************************************************)
(* JSON.  A token is [t, s]: punctuation, a string literal with its        *)
(* characters, true, false, or a number.                                   *)
(***************************************************************************)
Tok(t) == [t |-> t, s |-> <<>>]
StrTok(s) == [t |-> "str", s |-> s]
BoolTok(b) == IF b THEN Tok("true") ELSE Tok("false")

StringifyTodo(todo) ==
    << Tok("{"),
       StrTok(<<"id">>), Tok(":"), StrTok(todo.id), Tok(","),
       StrTok(<<"text">>), Tok(":"), StrTok(todo.text), Tok(","),
       StrTok(<<"completed">>), Tok(":"), BoolTok(todo.completed),
       Tok("}") >>

\* mutant: the elements are written last to first
RECURSIVE StringifyElemsReversed(_)
StringifyElemsReversed(ts) ==
    IF ts = <<>> THEN <<>>
    ELSE IF Len(ts) = 1 THEN StringifyTodo(ts[1])
    ELSE StringifyElemsReversed(Tail(ts)) \o <<Tok(",")>> \o StringifyTodo(ts[1])

RECURSIVE StringifyElems(_)
StringifyElems(ts) ==
    IF ts = <<>> THEN <<>>
    ELSE IF Len(ts) = 1 THEN StringifyTodo(ts[1])
    ELSE StringifyTodo(ts[1]) \o <<Tok(",")>> \o StringifyElems(Tail(ts))

\* JSON.stringify(todos)
JSONstringify(ts) == <<Tok("[")>> \o StringifyElems(ts) \o <<Tok("]")>>

(* A parsed JavaScript value is [k, s, e, m]: its kind, the characters of  *)
(* a string, the elements of an array, the members of an object.           *)
JVal(k, s, e, m) == [k |-> k, s |-> s, e |-> e, m |-> m]
JStr(s) == JVal("str", s, <<>>, <<>>)
JAtom(k) == JVal(k, <<>>, <<>>, <<>>)
JArr(e) == JVal("arr", <<>>, e, <<>>)
JObj(m) == JVal("obj", <<>>, <<>>, m)

ParseFail == [ok |-> FALSE, val |-> JAtom("null"), next |-> 0]
ParseOk(v, n) == [ok |-> TRUE, val |-> v, next |-> n]

TokAt(toks, i) == IF i \in 1..Len(toks) THEN toks[i].t ELSE "eof"

RECURSIVE ParseValue(_, _), ParseElems(_, _, _), ParseMembers(_, _, _)
ParseValue(toks, i) ==
    LET t == TokAt(toks, i) IN
    IF t = "str" THEN ParseOk(JStr(toks[i].s), i + 1)
    ELSE IF t \in {"true", "false", "num", "null"} THEN ParseOk(JAtom(t), i + 1)
    ELSE IF t = "[" THEN
        IF TokAt(toks, i + 1) = "]" THEN ParseOk(JArr(<<>>), i + 2)
        ELSE ParseElems(toks, i + 1, <<>>)
    ELSE IF t = "{" THEN
        IF TokAt(toks, i + 1) = "}" THEN ParseOk(JObj(<<>>), i + 2)
        ELSE ParseMembers(toks, i + 1, <<>>)
    ELSE ParseFail

ParseElems(toks, i, acc) ==
    LET v == ParseValue(toks, i) IN
    IF ~v.ok THEN ParseFail
    ELSE IF TokAt(toks, v.next) = "," THEN
        ParseElems(toks, v.next + 1, Append(acc, v.val))
    ELSE IF TokAt(toks, v.next) = "]" THEN
        ParseOk(JArr(Append(acc, v.val)), v.next + 1)
    ELSE ParseFail

ParseMembers(toks, i, acc) ==
    IF TokAt(toks, i) /= "str" \/ TokAt(toks, i + 1) /= ":" THEN ParseFail
    ELSE LET v == ParseValue(toks, i + 2)
             m == [key |-> toks[i].s, val |-> v.val]
         IN IF ~v.ok THEN ParseFail
            ELSE IF TokAt(toks, v.next) = "," THEN
                ParseMembers(toks, v.next + 1, Append(acc, m))
            ELSE IF TokAt(toks, v.next) = "}" THEN
                ParseOk(JObj(Append(acc, m)), v.next + 1)
            ELSE ParseFail

\* JSON.parse(text): [threw, val]; a SyntaxError unless the whole text is
\* one JSON value
JSONparse(toks) ==
    LET r == ParseValue(toks, 1) IN
    IF r.ok /\ r.next = Len(toks) + 1
    THEN [threw |-> FALSE, val |-> r.val]
    ELSE [threw |-> TRUE, val |-> JAtom("null")]

\* obj[key]: the last member with that key, or undefined
HasField(v, key) == \E i \in 1..Len(v.m) : v.m[i].key = key
Field(v, key) ==
    LET last == CHOOSE i \in 1..Len(v.m) :
                    /\ v.m[i].key = key
                    /\ \A j \in (i + 1)..Len(v.m) : v.m[j].key /= key
    IN v.m[last].val

\* the shape the type Todo declares
IsTodo(v) ==
    /\ v.k = "obj"
    /\ HasField(v, <<"id">>) /\ Field(v, <<"id">>).k = "str"
    /\ HasField(v, <<"text">>) /\ Field(v, <<"text">>).k = "str"
    /\ HasField(v, <<"completed">>)
    /\ Field(v, <<"completed">>).k \in {"true", "false"}

\* the shape the type Todo[] declares
IsTodoArray(v) == v.k = "arr" /\ \A i \in 1..Len(v.e) : IsTodo(v.e[i])

\* a value of shape Todo[] as the collection the component works on
AsTodos(v) ==
    [i \in 1..Len(v.e) |->
        Todo(Field(v.e[i], <<"id">>).s, Field(v.e[i], <<"text">>).s,
             Field(v.e[i], <<"completed">>).k = "true")]

(***************************************************************************)
(* The store adapter.  env is "ok"; "noWindow" (typeof window is           *)
(* "undefined"); "unavailable" (every localStorage access throws); or      *)
(* "quota" (reads work, setItem throws QuotaExceededError).                *)
(***************************************************************************)
Envs == {"ok", "noWindow", "unavailable", "quota"}

Absent == [present |-> FALSE, toks |-> <<>>]
Blob(toks) == [present |-> TRUE, toks |-> toks]

\* localStorage.getItem(STORAGE_KEY): [threw, val]; val is null when absent
getItem(e, st) == [threw |-> e = "unavailable", val |-> st]

\* localStorage.setItem(STORAGE_KEY, text): [threw, store]
setItem(e, st, toks) ==
    IF e \in {"unavailable", "quota"}
    THEN [threw |-> TRUE, store |-> st]
    ELSE [threw |-> FALSE, store |-> Blob(toks)]

\* mutant: JSON.parse outside the try block
loadTodosUncaught(e, st) ==
    IF e = "noWindow" THEN [threw |-> FALSE, val |-> JArr(<<>>)]
    ELSE LET g == getItem(e, st) IN
         IF g.threw THEN [threw |-> FALSE, val |-> JArr(<<>>)]
         ELSE IF g.val.present /\ Truthy(g.val.toks) THEN
             LET p == JSONparse(g.val.toks) IN
             [threw |-> p.threw, val |-> p.val]
         ELSE [threw |-> FALSE, val |-> JArr(<<>>)]

\* [threw, val]: val is what the function returns, unvalidated
loadTodosFromStorage(e, st) ==
    IF e = "noWindow" THEN [threw |-> FALSE, val |-> JArr(<<>>)]
    ELSE LET g == getItem(e, st) IN
         IF g.threw THEN [threw |-> FALSE, val |-> JArr(<<>>)]       \* catch
         ELSE IF g.val.present /\ Truthy(g.val.toks) THEN
             LET p == JSONparse(g.val.toks) IN
             IF p.threw THEN [threw |-> FALSE, val |-> JArr(<<>>)]   \* catch
             ELSE [threw |-> FALSE, val |-> p.val]
         ELSE [threw |-> FALSE, val |-> JArr(<<>>)]

\* mutant: setItem outside the try block
saveTodosUncaught(e, st, ts) ==
    IF e = "noWindow" THEN [threw |-> FALSE, store |-> st, wrote |-> FALSE]
    ELSE LET w == setItem(e, st, JSONstringify(ts)) IN
         [threw |-> w.threw, store |-> w.store, wrote |-> TRUE]

\* [threw, store, wrote]: wrote says that setItem was called
saveTodosToStorage(e, st, ts) ==
    IF e = "noWindow" THEN [threw |-> FALSE, store |-> st, wrote |-> FALSE]
    ELSE LET w == setItem(e, st, JSONstringify(ts)) IN
         IF w.threw THEN [threw |-> FALSE, store |-> st, wrote |-> TRUE]  \* catch
         ELSE [threw |-> FALSE, store |-> w.store, wrote |-> TRUE]

(***************************************************************************)
(* The component state a handler closes over, as the record                *)
(* [todos, inputValue, filter, editingId, editValue, setTodos]; setTodos   *)
(* says that the handler called setTodos (with a new array).               *)
(***************************************************************************)
State(ts, input, f, eid, ev) ==
    [todos |-> ts, inputValue |-> input, filter |-> f,
     editingId |-> eid, editValue |-> ev, setTodos |-> FALSE]

\* the useState initialisers
InitialState == State(<<>>, <<>>, "all", Null, <<>>)

Filters == {"all", "active", "completed"}

(***************************************************************************)
(* TodoList.tsx: handlers and derived values.                              *)
(***************************************************************************)
\* mutant: the input is tested without trim()
addTodoUntrimmedTest(st, id) ==
    IF Truthy(st.inputValue)
    THEN [st EXCEPT !.todos = Append(@, Todo(id, Trim(st.inputValue), FALSE)),
                    !.inputValue = <<>>,
                    !.setTodos = TRUE]
    ELSE st

\* mutant: the new item goes in front
addTodoInFront(st, id) ==
    IF Truthy(Trim(st.inputValue))
    THEN [st EXCEPT !.todos = <<Todo(id, Trim(st.inputValue), FALSE)>> \o @,
                    !.inputValue = <<>>,
                    !.setTodos = TRUE]
    ELSE st

addTodo(st, id) ==
    IF Truthy(Trim(st.inputValue))
    THEN [st EXCEPT !.todos = Append(@, Todo(id, Trim(st.inputValue), FALSE)),
                    !.inputValue = <<>>,
                    !.setTodos = TRUE]
    ELSE st

\* mutant: completed is set, not flipped
toggleTodoSet(st, id) ==
    [st EXCEPT !.todos = [i \in 1..Len(@) |->
                             IF @[i].id = id
                             THEN [@[i] EXCEPT !.completed = TRUE]
                             ELSE @[i]],
               !.setTodos = TRUE]

toggleTodo(st, id) ==
    [st EXCEPT !.todos = [i \in 1..Len(@) |->
                             IF @[i].id = id
                             THEN [@[i] EXCEPT !.completed = ~@]
                             ELSE @[i]],
               !.setTodos = TRUE]

deleteTodo(st, id) ==
    [st EXCEPT !.todos = SelectSeq(@, LAMBDA todo : todo.id /= id),
               !.setTodos = TRUE]

\* mutant: setEditValue(todo.text) is missing
startEditKeepsScratch(st, todo) ==
    [st EXCEPT !.editingId = todo.id]

startEdit(st, todo) ==
    [st EXCEPT !.editingId = todo.id, !.editValue = todo.text]

\* mutant: the double click starts an edit whatever todo.completed is
onDoubleClickUnguarded(st, todo) ==
    startEdit(st, todo)

\* the double click on the text of a row; the click on the Edit button,
\* which is disabled when todo.completed, does the same
onDoubleClick(st, todo) ==
    IF ~todo.completed THEN startEdit(st, todo) ELSE st

\* mutant: setEditingId(null) is missing
cancelEditKeepsSession(st) ==
    [st EXCEPT !.editValue = <<>>]

cancelEdit(st) ==
    [st EXCEPT !.editingId = Null, !.editValue = <<>>]

\* mutant: the scratch text is tested without trim()
saveEditUntrimmedTest(st, id) ==
    IF Truthy(st.editValue)
    THEN [st EXCEPT !.todos = [i \in 1..Len(@) |->
                                  IF @[i].id = id
                                  THEN [@[i] EXCEPT !.text = Trim(st.editValue)]
                                  ELSE @[i]],
                    !.editingId = Null,
                    !.editValue = <<>>,
                    !.setTodos = TRUE]
    ELSE [st EXCEPT !.editingId = Null, !.editValue = <<>>]

\* mutant: the scratch text is stored as typed
saveEditRawText(st, id) ==
    IF Truthy(Trim(st.editValue))
    THEN [st EXCEPT !.todos = [i \in 1..Len(@) |->
                                  IF @[i].id = id
                                  THEN [@[i] EXCEPT !.text = st.editValue]
                                  ELSE @[i]],
                    !.editingId = Null,
                    !.editValue = <<>>,
                    !.setTodos = TRUE]
    ELSE [st EXCEPT !.editingId = Null, !.editValue = <<>>]

saveEdit(st, id) ==
    IF Truthy(Trim(st.editValue))
    THEN [st EXCEPT !.todos = [i \in 1..Len(@) |->
                                  IF @[i].id = id
                                  THEN [@[i] EXCEPT !.text = Trim(st.editValue)]
                                  ELSE @[i]],
                    !.editingId = Null,
                    !.editValue = <<>>,
                    !.setTodos = TRUE]
    ELSE cancelEdit(st)

\* mutant: the test of the "completed" filter is missing
filteredTodosActiveOnly(ts, f) ==
    SelectSeq(ts, LAMBDA todo :
        IF f = "active" THEN ~todo.completed
        ELSE TRUE)

filteredTodos(ts, f) ==
    SelectSeq(ts, LAMBDA todo :
        IF f = "active" THEN ~todo.completed
        ELSE IF f = "completed" THEN todo.completed
        ELSE TRUE)

activeCount(ts) == Len(SelectSeq(ts, LAMBDA todo : ~todo.completed))

(***************************************************************************)
(* part_000: the same handlers without the edit session.                   *)
(***************************************************************************)
addTodoBasic(st, id) ==
    IF Truthy(Trim(st.inputValue))
    THEN [st EXCEPT !.todos = Append(@, Todo(id, Trim(st.inputValue), FALSE)),
                    !.inputValue = <<>>,
                    !.setTodos = TRUE]
    ELSE st

toggleTodoBasic(st, id) ==
    [st EXCEPT !.todos = [i \in 1..Len(@) |->
                             IF @[i].id = id
                             THEN [@[i] EXCEPT !.completed = ~@]
                             ELSE @[i]],
               !.setTodos = TRUE]

deleteTodoBasic(st, id) ==
    [st EXCEPT !.todos = SelectSeq(@, LAMBDA todo : todo.id /= id),
               !.setTodos = TRUE]

filteredTodosBasic(ts, f) ==
    SelectSeq(ts, LAMBDA todo :
        IF f = "active" THEN ~todo.completed
        ELSE IF f = "completed" THEN todo.completed
        ELSE TRUE)

activeCountBasic(ts) == Len(SelectSeq(ts, LAMBDA todo : ~todo.completed))

(***************************************************************************)
(* Rendering and effects.                                                  *)
(***************************************************************************)
\* the current render: what every handler closes over
Cur == State(todos, inputValue, filter, editingId, editValue)

\* mutant: the save effect without the hasLoaded test
SaveEffectUnguarded(closureTodos, closureHasLoaded, st) ==
    saveTodosToStorage(env, st, closureTodos)

\* the second useEffect, run with the todos and hasLoaded of its render
SaveEffect(closureTodos, closureHasLoaded, st) ==
    IF closureHasLoaded
    THEN saveTodosToStorage(env, st, closureTodos)
    ELSE [threw |-> FALSE, store |-> st, wrote |-> FALSE]

\* an uncaught error unmounts the component: its state is gone
Unmounted(kind, st, early) ==
    /\ fault' = kind
    /\ todos' = InitialState.todos
    /\ inputValue' = InitialState.inputValue
    /\ filter' = InitialState.filter
    /\ editingId' = InitialState.editingId
    /\ editValue' = InitialState.editValue
    /\ hasLoaded' = FALSE
    /\ store' = st
    /\ earlySave' = early

Rendered(r, ts, loaded, st, early) ==
    /\ fault' = "none"
    /\ todos' = ts
    /\ inputValue' = r.inputValue
    /\ filter' = r.filter
    /\ editingId' = r.editingId
    /\ editValue' = r.editValue
    /\ hasLoaded' = loaded
    /\ store' = st
    /\ earlySave' = early

\* mutant: the save effect that follows the load writes the todos of the
\* first render
MountEffectsSaveInitial(r) ==
    LET ld == loadTodosFromStorage(env, store)
        stale == SaveEffect(todos, hasLoaded, store)
        early == earlySave \/ stale.wrote
    IN IF ld.threw \/ stale.threw
       THEN Unmounted("effect", stale.store, early)
       ELSE IF ~IsTodoArray(ld.val)
       THEN Unmounted("render", stale.store, early)
       ELSE LET fresh == SaveEffect(todos, TRUE, stale.store) IN
            IF fresh.threw
            THEN Unmounted("effect", fresh.store, early)
            ELSE Rendered(r, AsTodos(ld.val), TRUE, fresh.store, early)

\* The effects of the first render are still pending: they are flushed
\* before the next render.  The load effect runs first and queues
\* setTodos(loadedTodos) and setHasLoaded(true) behind the updates of the
\* handler; the save effect runs with the first render's todos and
\* hasLoaded.  The component then renders with the loaded value, and the
\* save effect runs again, its dependencies having changed.
MountEffects(r) ==
    LET ld == loadTodosFromStorage(env, store)
        stale == SaveEffect(todos, hasLoaded, store)
        early == earlySave \/ stale.wrote
    IN IF ld.threw \/ stale.threw
       THEN Unmounted("effect", stale.store, early)
       ELSE IF ~IsTodoArray(ld.val)
       THEN Unmounted("render", stale.store, early)
       ELSE LET fresh == SaveEffect(AsTodos(ld.val), TRUE, stale.store) IN
            IF fresh.threw
            THEN Unmounted("effect", fresh.store, early)
            ELSE Rendered(r, AsTodos(ld.val), TRUE, fresh.store, early)

\* mutant: todos is missing from the dependencies of the save effect
UpdateWithoutSave(r) == Rendered(r, r.todos, hasLoaded, store, earlySave)

\* A later event: the component renders with the handler's updates and
\* the save effect runs if setTodos was called.
Update(r) ==
    IF r.setTodos
    THEN LET s == SaveEffect(r.todos, hasLoaded, store) IN
         IF s.threw
         THEN Unmounted("effect", s.store, earlySave)
         ELSE Rendered(r, r.todos, hasLoaded, s.store, earlySave)
    ELSE Rendered(r, r.todos, hasLoaded, store, earlySave)

\* what follows a handler of TodoList.tsx that left the state r
Commit(r) == IF hasLoaded THEN Update(r) ELSE MountEffects(r)

\* what follows a handler of part_000: a render, no effects
CommitBasic(r) ==
    /\ todos' = r.todos
    /\ inputValue' = r.inputValue
    /\ filter' = r.filter
    /\ UNCHANGED <<editingId, editValue, hasLoaded, store, fault, earlySave>>

\* mutant: the next handler still closes over the todos of the old render
RerenderedStale(r) == [r EXCEPT !.todos = todos, !.setTodos = FALSE]

\* a discrete event is flushed before the next one is dispatched: the
\* next handler closes over the render that followed the updates r
Rerendered(r) == [r EXCEPT !.setTodos = FALSE]

\* the save effect of the render that follows the updates r
SaveAfter(r, st) ==
    IF r.setTodos
    THEN SaveEffect(r.todos, hasLoaded, st)
    ELSE [threw |-> FALSE, store |-> st, wrote |-> FALSE]

\* what a press outside the edit input of row eid can land on, with the
\* updates of its handler: the checkbox, Delete, Edit or text of another
\* row, a filter button, or Add
Clicks(st, eid) ==
    LET rows == filteredTodos(st.todos, st.filter)
        others == { rows[i] : i \in { j \in 1..Len(rows) : rows[j].id /= eid } }
        adds == Truthy(Trim(st.inputValue))
    IN  { [r |-> toggleTodo(st, row.id), used |-> FALSE] : row \in others }
        \cup { [r |-> deleteTodo(st, row.id), used |-> FALSE] : row \in others }
        \cup { [r |-> onDoubleClick(st, row), used |-> FALSE] : row \in others }
        \cup { [r |-> [st EXCEPT !.filter = f], used |-> FALSE] : f \in Filters }
        \cup (IF adds => Len(st.todos) < MaxTodos /\ nextId <= MaxIds
              THEN { [r |-> addTodo(st, generateId(nextId)), used |-> adds] }
              ELSE {})

\* the rows the list renders
Rows == filteredTodos(todos, filter)
RowsBasic == filteredTodosBasic(todos, filter)

Mounted == variant = "persist" /\ fault = "none"

(***************************************************************************)
(* What localStorage["todos"] can hold when the page is first opened.      *)
(***************************************************************************)
\* a collection that an earlier session left behind
SeedTodos == << Todo(<<"s", "1">>, <<"a">>, FALSE),
                Todo(<<"s", "2">>, <<"b">>, TRUE) >>

EmptyText == Blob(<<>>)                          \* ""
Unparseable == Blob(<<Tok("["), Tok("{")>>)      \* "[{"
NotAnArray == Blob(<<Tok("num")>>)               \* "42"

InitBlobs == { Absent, EmptyText, Unparseable, NotAnArray,
               Blob(JSONstringify(SeedTodos)) }

Init ==
    /\ variant \in {"persist", "basic"}
    /\ env \in Envs
    /\ store \in InitBlobs
    /\ variant = "basic" => env = "ok"
    \* without a window there is no localStorage, and part_000 uses none
    /\ variant = "basic" \/ env = "noWindow" => store = Absent
    /\ nextId = 1
    /\ todos = InitialState.todos
    /\ inputValue = InitialState.inputValue
    /\ filter = InitialState.filter
    /\ editingId = InitialState.editingId
    /\ editValue = InitialState.editValue
    /\ hasLoaded = FALSE
    /\ fault = "none"
    /\ earlySave = FALSE

(***************************************************************************)
(* TodoList.tsx: one action per event.                                     *)
(***************************************************************************)
\* the effects of the first render run without any event before them
Mount ==
    /\ Mounted /\ ~hasLoaded
    /\ MountEffects(Cur)
    /\ UNCHANGED <<variant, env, nextId>>

\* onChange of the add input
SetInputValue ==
    /\ Mounted
    /\ \E v \in RawTexts : Commit([Cur EXCEPT !.inputValue = v])
    /\ UNCHANGED <<variant, env, nextId>>

\* onClick of Add, or Enter in the add input (handleKeyDown)
AddTodo ==
    /\ Mounted
    /\ Truthy(Trim(inputValue)) => Len(todos) < MaxTodos /\ nextId <= MaxIds
    /\ Commit(addTodo(Cur, generateId(nextId)))
    /\ nextId' = IF Truthy(Trim(inputValue)) THEN nextId + 1 ELSE nextId
    /\ UNCHANGED <<variant, env>>

\* onClick of All, Active or Completed
SetFilter ==
    /\ Mounted
    /\ \E f \in Filters : Commit([Cur EXCEPT !.filter = f])
    /\ UNCHANGED <<variant, env, nextId>>

\* mutant: the checkbox of the edited row is not disabled
ToggleTodoWhileEditing ==
    /\ Mounted
    /\ \E i \in 1..Len(Rows) : Commit(toggleTodo(Cur, Rows[i].id))
    /\ UNCHANGED <<variant, env, nextId>>

\* onChange of a row's checkbox, disabled while that row is edited
ToggleTodo ==
    /\ Mounted
    /\ \E i \in 1..Len(Rows) :
          /\ editingId /= Rows[i].id
          /\ Commit(toggleTodo(Cur, Rows[i].id))
    /\ UNCHANGED <<variant, env, nextId>>

\* onClick of a row's Delete, not rendered while that row is edited
DeleteTodo ==
    /\ Mounted
    /\ \E i \in 1..Len(Rows) :
          /\ editingId /= Rows[i].id
          /\ Commit(deleteTodo(Cur, Rows[i].id))
    /\ UNCHANGED <<variant, env, nextId>>

\* onDoubleClick of a row's text (guarded by !todo.completed), or onClick
\* of its Edit (disabled when completed); neither is rendered while that
\* row is edited
StartEdit ==
    /\ Mounted
    /\ \E i \in 1..Len(Rows) :
          /\ editingId /= Rows[i].id
          /\ Commit(onDoubleClick(Cur, Rows[i]))
    /\ UNCHANGED <<variant, env, nextId>>

\* the edit input is rendered in the row whose id is editingId
EditInputRendered == \E i \in 1..Len(Rows) : Rows[i].id = editingId

\* onChange of the edit input
SetEditValue ==
    /\ Mounted /\ EditInputRendered
    /\ \E v \in RawTexts : Commit([Cur EXCEPT !.editValue = v])
    /\ UNCHANGED <<variant, env, nextId>>

\* Enter in the edit input (handleEditKeyDown)
EditKeyEnter ==
    /\ Mounted /\ EditInputRendered
    /\ Commit(saveEdit(Cur, editingId))
    /\ UNCHANGED <<variant, env, nextId>>

\* Escape in the edit input (handleEditKeyDown)
EditKeyEscape ==
    /\ Mounted /\ EditInputRendered
    /\ Commit(cancelEdit(Cur))
    /\ UNCHANGED <<variant, env, nextId>>

\* onBlur of the edit input
EditBlur ==
    /\ Mounted /\ EditInputRendered
    /\ Commit(saveEdit(Cur, editingId))
    /\ UNCHANGED <<variant, env, nextId>>

\* a press outside the edit input: onBlur of the edit input, the render
\* and save effect that follow it, then the handler of what was pressed
EditBlurThenClick ==
    /\ Mounted /\ EditInputRendered
    /\ LET r1 == saveEdit(Cur, editingId)
           s1 == SaveAfter(r1, store)
       IN  IF s1.threw
           THEN Unmounted("effect", s1.store, earlySave) /\ nextId' = nextId
           ELSE \E c \in Clicks(Rerendered(r1), editingId) :
                   LET s2 == SaveAfter(c.r, s1.store) IN
                   /\ IF s2.threw
                      THEN Unmounted("effect", s2.store, earlySave)
                      ELSE Rendered(c.r, c.r.todos, hasLoaded, s2.store,
                                    earlySave)
                   /\ nextId' = IF c.used THEN nextId + 1 ELSE nextId
    /\ UNCHANGED <<variant, env>>

\* the page is reloaded: the component is constructed anew, the store stays
Restart ==
    /\ variant = "persist"
    /\ hasLoaded \/ fault /= "none"
    /\ fault' = "none"
    /\ todos' = InitialState.todos
    /\ inputValue' = InitialState.inputValue
    /\ filter' = InitialState.filter
    /\ editingId' = InitialState.editingId
    /\ editValue' = InitialState.editValue
    /\ hasLoaded' = FALSE
    /\ UNCHANGED <<variant, env, store, nextId, earlySave>>

(***************************************************************************)
(* part_000: one action per event.                                         *)
(***************************************************************************)
BasicSetInputValue ==
    /\ variant = "basic"
    /\ \E v \in RawTexts : CommitBasic([Cur EXCEPT !.inputValue = v])
    /\ UNCHANGED <<variant, env, nextId>>

BasicAddTodo ==
    /\ variant = "basic"
    /\ Truthy(Trim(inputValue)) => Len(todos) < MaxTodos /\ nextId <= MaxIds
    /\ CommitBasic(addTodoBasic(Cur, generateId(nextId)))
    /\ nextId' = IF Truthy(Trim(inputValue)) THEN nextId + 1 ELSE nextId
    /\ UNCHANGED <<variant, env>>

BasicSetFilter ==
    /\ variant = "basic"
    /\ \E f \in Filters : CommitBasic([Cur EXCEPT !.filter = f])
    /\ UNCHANGED <<variant, env, nextId>>

BasicToggleTodo ==
    /\ variant = "basic"
    /\ \E i \in 1..Len(RowsBasic) :
          CommitBasic(toggleTodoBasic(Cur, RowsBasic[i].id))
    /\ UNCHANGED <<variant, env, nextId>>

BasicDeleteTodo ==
    /\ variant = "basic"
    /\ \E i \in 1..Len(RowsBasic) :
          CommitBasic(deleteTodoBasic(Cur, RowsBasic[i].id))
    /\ UNCHANGED <<variant, env, nextId>>

Next ==
    \/ Mount
    \/ SetInputValue
    \/ AddTodo
    \/ SetFilter
    \/ ToggleTodo
    \/ DeleteTodo
    \/ StartEdit
    \/ SetEditValue
    \/ EditKeyEnter
    \/ EditKeyEscape
    \/ EditBlur
    \/ EditBlurThenClick
    \/ Restart
    \/ BasicSetInputValue
    \/ BasicAddTodo
    \/ BasicSetFilter
    \/ BasicToggleTodo
    \/ BasicDeleteTodo

Spec == Init /\ [][Next]_vars

(***************************************************************************)
(* Helpers of the properties.                                              *)
(***************************************************************************)
Persisting == variant = "persist"

\* the collection a page load would start from, given the store st
Reloaded(e, st) == AsTodos(loadTodosFromStorage(e, st).val)

\* the store holds a non-empty well-formed collection
HoldsCollection(st) ==
    /\ st.present
    /\ ~JSONparse(st.toks).threw
    /\ IsTodoArray(JSONparse(st.toks).val)
    /\ Len(JSONparse(st.toks).val.e) > 0

\* the current state with raw typed into the add input
Typed(raw) == [Cur EXCEPT !.inputValue = raw]

Ids(ts) == { ts[i].id : i \in 1..Len(ts) }

\* an id no item has
AbsentId == <<"x">>

(***************************************************************************)
(* C1: in the persisting variant no save effect ever writes from the       *)
(* render that precedes the load; the store changes only in a step that    *)
(* ends with the load completed; and the step that performs the load       *)
(* leaves a non-empty persisted collection as it was.                      *)
(***************************************************************************)
C1_NoSaveBeforeLoad ==
    /\ [](Persisting => ~earlySave)
    /\ [][Persisting /\ store' /= store => hasLoaded']_vars
    /\ [][Persisting /\ ~hasLoaded /\ HoldsCollection(store) => store' = store]_vars

\* the load found a persisted collection, and an item added since was saved
C1_Witness ==
    /\ Persisting /\ hasLoaded /\ env = "ok" /\ nextId = 2
    /\ Len(todos) = 2 /\ todos[1] = SeedTodos[2]
    /\ store = Blob(JSONstringify(todos))

(***************************************************************************)
(* C2: once the load has completed and while the store accepts writes,     *)
(* after every event the stored blob is exactly the serialisation of the   *)
(* in-memory collection (the whole collection, nothing of the old blob).   *)
(***************************************************************************)
C2_StoreFollowsMemory ==
    Persisting /\ hasLoaded /\ fault = "none" /\ env = "ok"
        => store = Blob(JSONstringify(todos))

\* two items were added and the first one was toggled
C2_Witness ==
    /\ Persisting /\ hasLoaded /\ env = "ok" /\ nextId = 3
    /\ Len(todos) = 2 /\ todos[1].completed /\ ~todos[2].completed
    /\ todos[1].id = generateId(1)

(***************************************************************************)
(* C3: on a working store, load after save of the current collection       *)
(* returns that collection, items, fields and order; and at a page reload  *)
(* the collection the next session will load is the one this session       *)
(* ended with.                                                             *)
(***************************************************************************)
C3_RoundTrip ==
    /\ [](LET saved == saveTodosToStorage("ok", store, todos).store
              ld == loadTodosFromStorage("ok", saved)
          IN ~ld.threw /\ IsTodoArray(ld.val) /\ AsTodos(ld.val) = todos)
    /\ [][Persisting /\ env = "ok" /\ hasLoaded /\ ~hasLoaded' /\ fault' = "none"
            => Reloaded(env', store') = todos]_vars

\* the page was reloaded after a session that left two items, one completed
C3_Witness ==
    /\ Persisting /\ env = "ok" /\ ~hasLoaded /\ fault = "none"
    /\ store \notin InitBlobs
    /\ HoldsCollection(store)
    /\ Len(Reloaded(env, store)) = 2
    /\ Reloaded(env, store)[1].completed
    /\ Reloaded(env, store)[2].id = generateId(2)

(***************************************************************************)
(* C4: load never throws, in any environment and for any stored value,     *)
(* and returns the empty collection when the key is absent, when there is  *)
(* no window, when the store read throws and when the text does not parse; *)
(* no effect ever takes the component down.                                *)
(***************************************************************************)
C4_LoadNeverRaises ==
    Persisting =>
        /\ fault /= "effect"
        /\ \A e \in Envs :
              LET ld == loadTodosFromStorage(e, store) IN
              /\ ~ld.threw
              /\ (\/ e \in {"noWindow", "unavailable"}
                  \/ ~store.present
                  \/ JSONparse(store.toks).threw) => ld.val = JArr(<<>>)

\* the component loaded from an unparseable blob and is running, empty
C4_Witness ==
    /\ Persisting /\ env = "quota" /\ store = Unparseable
    /\ hasLoaded /\ fault = "none" /\ todos = <<>>

(***************************************************************************)
(* C5: for every stored blob, the value load returns is a well-formed      *)
(* collection, a sequence of {id, text, completed} items: once the load    *)
(* effect has run, what it got from the store has that shape and the       *)
(* render that uses it has not failed.                                     *)
(***************************************************************************)
C5_LoadReturnsCollection ==
    Persisting /\ (hasLoaded \/ fault /= "none") =>
        /\ IsTodoArray(loadTodosFromStorage(env, store).val)
        /\ fault /= "render"

(***************************************************************************)
(* C6: where setItem throws, save does not throw and leaves the store as   *)
(* it was; no event takes the component down; and an add, a toggle, a      *)
(* delete or an edit commit leaves todos, filter, inputValue and the edit  *)
(* session exactly as its handler computed them.                           *)
(***************************************************************************)
WriteFails == Persisting /\ env \in {"quota", "unavailable"}

\* the fields of a handler result r are the component state after the step
After(r) ==
    /\ todos' = r.todos
    /\ inputValue' = r.inputValue
    /\ filter' = r.filter
    /\ editingId' = r.editingId
    /\ editValue' = r.editValue

C6_SaveFailureSwallowed ==
    /\ [](WriteFails =>
            /\ fault /= "effect"
            /\ ~saveTodosToStorage(env, store, todos).threw
            /\ saveTodosToStorage(env, store, todos).store = store)
    /\ [][WriteFails /\ hasLoaded /\ fault = "none" => fault' = "none" /\ store' = store]_vars
    /\ [][WriteFails /\ hasLoaded /\ AddTodo => After(addTodo(Cur, generateId(nextId)))]_vars
    /\ [][WriteFails /\ hasLoaded /\ ToggleTodo =>
            \E id \in Ids(todos) : After(toggleTodo(Cur, id))]_vars
    /\ [][WriteFails /\ hasLoaded /\ DeleteTodo =>
            \E id \in Ids(todos) : After(deleteTodo(Cur, id))]_vars
    /\ [][WriteFails /\ hasLoaded /\ (EditKeyEnter \/ EditBlur) =>
            After(saveEdit(Cur, editingId))]_vars

\* two adds and a toggle were applied in memory while every write failed
C6_Witness ==
    /\ WriteFails /\ env = "quota" /\ hasLoaded /\ fault = "none"
    /\ store = Absent /\ nextId = 3
    /\ Len(todos) = 2 /\ todos[2].completed

(***************************************************************************)
(* C7: in both variants, add with an empty or whitespace-only input        *)
(* returns the state unchanged, and the event as a whole changes nothing:  *)
(* no item, no id handed out, no write.                                    *)
(***************************************************************************)
Blank(raw) == Trim(raw) = <<>>

C7_BlankAddIsNoOp ==
    /\ [](\A raw \in RawTexts : Blank(raw) =>
            IF Persisting
            THEN addTodo(Typed(raw), generateId(nextId)) = Typed(raw)
            ELSE addTodoBasic(Typed(raw), generateId(nextId)) = Typed(raw))
    /\ [][Blank(inputValue) /\ ((AddTodo /\ hasLoaded) \/ BasicAddTodo)
            => UNCHANGED vars]_vars

\* whitespace is in the add input of a list that has an item: Add changes
\* nothing there
C7_Witness ==
    /\ inputValue = <<" ">> /\ Len(todos) = 1 /\ fault = "none"
    /\ Persisting => hasLoaded

(***************************************************************************)
(* C8: add with an input that trims to a non-empty text t appends exactly  *)
(* one item, with an id no item has, text t and completed false, behind    *)
(* the existing items, which stay as they are; length and activeCount      *)
(* grow by one.                                                            *)
(***************************************************************************)
Appended(ts, r, raw, id) ==
    /\ Len(r.todos) = Len(ts) + 1
    /\ SubSeq(r.todos, 1, Len(ts)) = ts
    /\ r.todos[Len(ts) + 1] = Todo(id, Trim(raw), FALSE)
    /\ Trim(Trim(raw)) = Trim(raw) /\ Trim(raw) /= <<>>
    /\ id \notin Ids(ts)
    /\ activeCount(r.todos) = activeCount(ts) + 1

C8_AddAppendsOne ==
    /\ [](\A raw \in RawTexts : ~Blank(raw) =>
            Appended(todos,
                     IF Persisting THEN addTodo(Typed(raw), generateId(nextId))
                     ELSE addTodoBasic(Typed(raw), generateId(nextId)),
                     raw, generateId(nextId)))
    /\ [][~Blank(inputValue) /\ ((AddTodo /\ hasLoaded) \/ BasicAddTodo)
            => todos' = Append(todos, Todo(generateId(nextId), Trim(inputValue), FALSE))]_vars

\* " a" was added behind a completed item
C8_Witness ==
    /\ fault = "none" /\ nextId = 3 /\ Len(todos) = 2
    /\ todos[1].completed
    /\ todos[2] = Todo(generateId(2), <<"a">>, FALSE)
    /\ activeCount(todos) = 1

(***************************************************************************)
(* C9: in both variants, toggling the same present id twice gives the      *)
(* collection back; one toggle flips completed of the item with that id    *)
(* and changes nothing else; toggling an id that no item has changes       *)
(* nothing.                                                                *)
(***************************************************************************)
Toggled(st, id) ==
    IF Persisting THEN toggleTodo(st, id).todos ELSE toggleTodoBasic(st, id).todos

C9_ToggleInvolution ==
    /\ \A i \in 1..Len(todos) :
          LET once == Toggled(Cur, todos[i].id) IN
          /\ Toggled([Cur EXCEPT !.todos = once], todos[i].id) = todos
          /\ Len(once) = Len(todos)
          /\ once[i] = [todos[i] EXCEPT !.completed = ~todos[i].completed]
          /\ \A j \in 1..Len(todos) : j /= i => once[j] = todos[j]
    /\ Toggled(Cur, AbsentId) = todos

\* the first of two items was created by add and has been toggled
C9_Witness ==
    /\ Len(todos) = 2 /\ todos[1].id = generateId(1)
    /\ todos[1].completed /\ ~todos[2].completed

(***************************************************************************)
(* C10: deleting the id of the item that add has just created gives the    *)
(* collection add started from; deleting an id that no item has changes    *)
(* nothing.                                                                *)
(***************************************************************************)
C10_RemoveUndoesAdd ==
    /\ \A raw \in RawTexts : ~Blank(raw) =>
          LET added == addTodo(Typed(raw), generateId(nextId)) IN
          /\ Len(added.todos) = Len(todos) + 1
          /\ deleteTodo(added, generateId(nextId)).todos = todos
    /\ deleteTodo(Cur, AbsentId).todos = todos

\* an item was added to the loaded collection and deleted again
C10_Witness ==
    /\ Persisting /\ env = "ok" /\ hasLoaded /\ nextId = 2
    /\ todos = <<SeedTodos[1]>> /\ store = Blob(JSONstringify(todos))


(***************************************************************************)
(* C11: in both variants the "all" view is the collection; the "active"    *)
(* view holds exactly the items that are not completed and the "completed" *)
(* view exactly those that are, so that every item is in exactly one of    *)
(* the two; each view lists its items in the order of the collection;      *)
(* activeCount is the length of the active view; and a filter change       *)
(* leaves the collection and the store as they are.                        *)
(***************************************************************************)
View(f) ==
    IF Persisting THEN filteredTodos(todos, f) ELSE filteredTodosBasic(todos, f)

\* how often item occurs in the sequence v
Occurrences(v, item) == Cardinality({ i \in 1..Len(v) : v[i] = item })

\* the position in the collection of the i-th item of the view v
PositionOf(v, i) == CHOOSE p \in 1..Len(todos) : todos[p] = v[i]

InCollectionOrder(v) ==
    /\ \A i \in 1..Len(v) : \E p \in 1..Len(todos) : todos[p] = v[i]
    /\ \A i, j \in 1..Len(v) : i < j => PositionOf(v, i) < PositionOf(v, j)

C11_ViewsPartition ==
    /\ [](/\ View("all") = todos
          /\ \A p \in 1..Len(todos) :
                /\ Occurrences(View("active"), todos[p])
                     = (IF todos[p].completed THEN 0 ELSE 1)
                /\ Occurrences(View("completed"), todos[p])
                     = (IF todos[p].completed THEN 1 ELSE 0)
          /\ Len(View("active")) + Len(View("completed")) = Len(todos)
          /\ InCollectionOrder(View("active"))
          /\ InCollectionOrder(View("completed"))
          /\ (IF Persisting THEN activeCount(todos) ELSE activeCountBasic(todos))
                = Len(View("active")))
    /\ [][(SetFilter /\ hasLoaded) \/ BasicSetFilter
            => todos' = todos /\ store' = store]_vars

\* the "completed" view is shown of a collection whose first item is active
\* and whose second item is completed
C11_Witness ==
    /\ fault = "none" /\ filter = "completed" /\ Len(todos) = 2
    /\ ~todos[1].completed /\ todos[2].completed
    /\ View(filter) = <<todos[2]>>


(***************************************************************************)
(* C12: committing the session Editing(id, scratch), by Enter or by the    *)
(* loss of focus, ends in Idle; if scratch trims to a non-empty text, the  *)
(* one item with that id gets the trimmed scratch as its text and keeps    *)
(* its id, its completed flag and its position, and every other item is    *)
(* unchanged; if scratch trims to empty, the collection is unchanged.      *)
(***************************************************************************)
Idle == editingId = Null /\ editValue = <<>>

CommitStep == hasLoaded /\ editingId /= Null /\ (EditKeyEnter \/ EditBlur)

\* ts is the collection with text as the text of the one item with that id
TextReplaced(ts, id, text) ==
    /\ Cardinality({ i \in 1..Len(todos) : todos[i].id = id }) = 1
    /\ Len(ts) = Len(todos)
    /\ \A i \in 1..Len(todos) :
          IF todos[i].id = id
          THEN ts[i] = Todo(id, text, todos[i].completed)
          ELSE ts[i] = todos[i]

C12_CommitEdit ==
    [][CommitStep =>
          /\ Idle'
          /\ IF Trim(editValue) /= <<>>
             THEN TextReplaced(todos', editingId, Trim(editValue))
             ELSE todos' = todos]_vars

\* the text of the first item of the earlier session was "a" and a commit
\* made it "b"
C12_Witness ==
    /\ Persisting /\ hasLoaded /\ Idle /\ Len(todos) = 2
    /\ todos[1] = Todo(SeedTodos[1].id, <<"b">>, FALSE)
    /\ todos[2] = SeedTodos[2]


(***************************************************************************)
(* C13 as stated: cancelling an edit session, explicitly (Escape) or by    *)
(* loss of focus of the edit field, moves Editing to Idle, discards the    *)
(* scratch text and performs no mutation of the collection.                *)
(***************************************************************************)
C13_CancelDiscards ==
    [][hasLoaded /\ editingId /= Null /\ (EditKeyEscape \/ EditBlur)
          => Idle' /\ todos' = todos]_vars

(***************************************************************************)
(* C13 as amended: Escape moves Editing to Idle, discards the scratch text *)
(* and changes neither the collection nor the store; while a session       *)
(* lasts, no event changes the committed text of the edited item, so that  *)
(* after Escape it is the text the session started with; the loss of focus *)
(* of the edit field moves Editing to Idle and commits as Enter does: a    *)
(* scratch text that trims to non-empty replaces the text of the item, and *)
(* only one that trims to empty is discarded.                              *)
(***************************************************************************)
TextsOf(ts, id) == { ts[i].text : i \in { j \in 1..Len(ts) : ts[j].id = id } }

C13_EscapeDiscardsBlurCommits ==
    /\ [][hasLoaded /\ editingId /= Null /\ EditKeyEscape
            => Idle' /\ todos' = todos /\ store' = store]_vars
    /\ [][editingId /= Null /\ editingId' = editingId
            => TextsOf(todos', editingId) = TextsOf(todos, editingId)]_vars
    /\ [][hasLoaded /\ editingId /= Null /\ EditBlur
            => /\ Idle'
               /\ Trim(editValue) /= <<>>
                    => TextsOf(todos', editingId) = {Trim(editValue)}
               /\ Trim(editValue) = <<>> => todos' = todos]_vars

\* after a commit made its text "b", the first item is edited again and
\* the scratch text differs from it: Escape and the loss of focus now differ
C13_Witness ==
    /\ Persisting /\ hasLoaded /\ Len(todos) >= 1
    /\ todos[1] = Todo(SeedTodos[1].id, <<"b">>, FALSE)
    /\ editingId = todos[1].id /\ editValue = <<" ", "a">>


(***************************************************************************)
(* C14: startEdit is permitted only for an item that is not completed.     *)
(* Asking for it on a completed row leaves the whole state unchanged, and  *)
(* asking for it on a row that is not completed enters                     *)
(* Editing(item.id, item.text), the collection and the store left alone;   *)
(* whenever a session is entered from Idle, it is on an item of the        *)
(* collection that is not completed, with its text as the scratch text.    *)
(***************************************************************************)
C14_StartEditOnlyIfNotCompleted ==
    /\ [][hasLoaded /\ StartEdit
            => \E i \in 1..Len(Rows) :
                  /\ Rows[i].id /= editingId
                  /\ IF Rows[i].completed
                     THEN UNCHANGED vars
                     ELSE /\ editingId' = Rows[i].id
                          /\ editValue' = Rows[i].text
                          /\ UNCHANGED <<todos, store, inputValue, filter>>]_vars
    /\ [][Idle /\ editingId' /= Null
            => /\ todos' = todos
               /\ \E i \in 1..Len(todos) :
                     /\ todos[i].id = editingId'
                     /\ ~todos[i].completed
                     /\ editValue' = todos[i].text]_vars

\* a session on the first item, the completed second item in view
C14_Witness ==
    /\ Persisting /\ hasLoaded /\ todos = SeedTodos /\ filter = "all"
    /\ editingId = SeedTodos[1].id /\ editValue = SeedTodos[1].text


(***************************************************************************)
(* C15 as stated: at most one edit session exists, and starting a new edit *)
(* while another item is being edited cancels the prior session: the       *)
(* switch leaves the collection, and so the committed text of the item     *)
(* edited before, unchanged, and the new session is                        *)
(* Editing(newItem.id, newItem.text).                                      *)
(***************************************************************************)
Switch == editingId /= Null /\ editingId' \notin {Null, editingId}

C15_SwitchCancels ==
    [][Switch
         => /\ todos' = todos
            /\ \E i \in 1..Len(todos) :
                  todos[i].id = editingId' /\ editValue' = todos[i].text]_vars

(***************************************************************************)
(* C15 as amended: editingId names at most one item of the collection.     *)
(* The startEdit handler alone, called while another item is edited,       *)
(* leaves the collection unchanged; a press that starts the new edit takes *)
(* the focus from the edit field first, and that commits the prior         *)
(* session: the collection after the switch is the one saveEdit produces,  *)
(* with the trimmed scratch text as the text of the item edited before     *)
(* when it is non-empty.  Either way the new session is on an item that is *)
(* not completed, with that item's text as the scratch text.               *)
(***************************************************************************)
C15_SwitchCommits ==
    /\ [](Cardinality({ i \in 1..Len(todos) : todos[i].id = editingId }) <= 1)
    /\ [][Switch /\ StartEdit => todos' = todos /\ store' = store]_vars
    /\ [][Switch /\ EditBlurThenClick
            => /\ todos' = saveEdit(Cur, editingId).todos
               /\ Trim(editValue) /= <<>>
                    => TextsOf(todos', editingId) = {Trim(editValue)}]_vars
    /\ [][Switch
            => \E i \in 1..Len(todos') :
                  /\ todos'[i].id = editingId'
                  /\ ~todos'[i].completed
                  /\ editValue' = todos'[i].text]_vars

\* the second item is edited after a press on its Edit committed "b" as
\* the text of the first
C15_Witness ==
    /\ Persisting /\ hasLoaded /\ Len(todos) = 2
    /\ todos[1] = Todo(SeedTodos[1].id, <<"b">>, FALSE)
    /\ ~todos[2].completed
    /\ editingId = todos[2].id /\ editValue = todos[2].text


(***************************************************************************)
(* C16: in every reachable state every item of the collection, and every   *)
(* item a page load would read back from the store, has a text that is     *)
(* non-empty and has no leading or trailing white space.                   *)
(***************************************************************************)
TextsTrimmed(ts) ==
    \A i \in 1..Len(ts) : ts[i].text /= <<>> /\ Trim(ts[i].text) = ts[i].text

C16_TextsNonEmptyTrimmed ==
    /\ TextsTrimmed(todos)
    /\ Persisting /\ fault = "none" /\ hasLoaded => TextsTrimmed(Reloaded(env, store))

\* the first item was edited, with "b " or " b" typed, and then completed;
\* the second was added
C16_Witness ==
    /\ Persisting /\ hasLoaded /\ Idle /\ Len(todos) = 2
    /\ todos[1] = Todo(SeedTodos[1].id, <<"b">>, TRUE)
    /\ todos[2] = Todo(generateId(1), <<"a">>, FALSE)


(***************************************************************************)
(* C17: no two items of the collection share an id; an event keeps the ids *)
(* of the items in their order, except that a delete takes one id out and  *)
(* an add puts the new id at the end (a press outside the edit input may   *)
(* do both after its commit); and the collection a page load would read    *)
(* from a store that takes writes has the ids of the collection in memory. *)
(***************************************************************************)
IdSeq(ts) == [i \in 1..Len(ts) |-> ts[i].id]

WithoutOne(ids) ==
    { SubSeq(ids, 1, p - 1) \o SubSeq(ids, p + 1, Len(ids)) : p \in 1..Len(ids) }

IdsKept(old, new) ==
    \E kept \in {old} \cup WithoutOne(old) :
        new \in {kept, Append(kept, generateId(nextId))}

C17_IdsUniqueImmutable ==
    /\ [](\A i, j \in 1..Len(todos) : todos[i].id = todos[j].id => i = j)
    /\ [](Persisting /\ hasLoaded /\ env = "ok"
             => IdSeq(Reloaded(env, store)) = IdSeq(todos))
    /\ [][(Persisting => hasLoaded /\ hasLoaded')
             => IdsKept(IdSeq(todos), IdSeq(todos'))]_vars

\* the item loaded second was made active and edited; the item added in
\* this session was completed
C17_Witness ==
    /\ Persisting /\ hasLoaded /\ env = "ok" /\ Len(todos) = 2
    /\ todos[1] = Todo(SeedTodos[2].id, <<"a">>, FALSE)
    /\ todos[2].id = generateId(1) /\ todos[2].completed
    /\ store = Blob(JSONstringify(todos))


(***************************************************************************)
(* C18: whenever an edit session is open, also while a filter hides the    *)
(* edited row, editingId is the id of an item that is in the collection    *)
(* and is not completed; and as long as the session stays open on that     *)
(* item no event removes the item or changes its completed flag.           *)
(***************************************************************************)
Edited(ts, id) == { ts[i] : i \in { j \in 1..Len(ts) : ts[j].id = id } }

C18_EditedItemPresentActive ==
    /\ [](editingId /= Null
            => \E todo \in Edited(todos, editingId) : ~todo.completed)
    /\ [][editingId /= Null /\ editingId' = editingId
            => /\ Edited(todos', editingId) /= {}
               /\ { todo.completed : todo \in Edited(todos', editingId) }
                    = { todo.completed : todo \in Edited(todos, editingId) }]_vars

\* the first item is edited while the Completed filter hides its row
C18_Witness ==
    /\ Persisting /\ hasLoaded /\ todos = SeedTodos
    /\ filter = "completed" /\ Rows = <<SeedTodos[2]>>
    /\ editingId = SeedTodos[1].id /\ editValue = <<"b", " ">>


(***************************************************************************)
(* C19: no update is lost when one press runs two handlers.  The loss of   *)
(* focus of the edit input commits, and the handler of what was pressed    *)
(* then works on the collection that commit produced: the state after the  *)
(* press is the one that handler yields from the committed collection, the *)
(* item edited has the trimmed scratch text if that is non-empty, and a    *)
(* store that takes writes holds the resulting collection.                 *)
(***************************************************************************)
Committed == [saveEdit(Cur, editingId) EXCEPT !.setTodos = FALSE]

C19_NoLostUpdate ==
    [][hasLoaded /\ EditBlurThenClick
         => /\ \E c \in Clicks(Committed, editingId) : After(c.r)
            /\ Trim(editValue) /= <<>>
                 => TextsOf(todos', editingId) = {Trim(editValue)}
            /\ env = "ok" => Reloaded(env, store') = todos']_vars

\* "b" was committed as the text of the first item by the press that made
\* the second item active
C19_Witness ==
    /\ Persisting /\ hasLoaded /\ Idle /\ env = "ok" /\ filter = "all"
    /\ todos = << Todo(SeedTodos[1].id, <<"b">>, FALSE),
                  Todo(SeedTodos[2].id, <<"b">>, FALSE) >>
    /\ store = Blob(JSONstringify(todos))


(***************************************************************************)
(* C20: starting on a store that holds a well-formed collection leaves it  *)
(* unchanged.  When the effects of the first render have run, the          *)
(* component is loaded, a page load would read from the store the same     *)
(* items in the same order as before, the collection in memory is the one  *)
(* the load returned, and a store that takes writes holds exactly its      *)
(* serialisation; without a user action the rest of the state is the       *)
(* initial one.                                                            *)
(***************************************************************************)
WellFormedStore(st) ==
    /\ st.present
    /\ ~JSONparse(st.toks).threw
    /\ IsTodoArray(JSONparse(st.toks).val)

C20_StartupKeepsStore ==
    [][Persisting /\ fault = "none" /\ ~hasLoaded /\ WellFormedStore(store)
         => /\ fault' = "none" /\ hasLoaded'
            /\ Reloaded("ok", store') = Reloaded("ok", store)
            /\ todos' = Reloaded(env, store)
            /\ env = "ok" => store' = Blob(JSONstringify(Reloaded(env, store)))
            /\ Mount => /\ inputValue' = InitialState.inputValue
                        /\ filter' = InitialState.filter
                        /\ Idle']_vars

\* the page was opened on the collection an earlier session left, and
\* nothing was done since
C20_Witness ==
    /\ Persisting /\ hasLoaded /\ env = "ok" /\ nextId = 1
    /\ todos = SeedTodos /\ store = Blob(JSONstringify(SeedTodos))
    /\ inputValue = <<>> /\ filter = "all" /\ Idle

====
